---- MODULE Spec2Model ----
(***************************************************************************)
(* A model of the ONVIF control-plane server of src/onvif_server.cpp: the  *)
(* device identity and media profiles, the SOAP response builders, the     *)
(* substring dispatcher processRequest, and the transport around it (main, *)
(* start/stop, the accept loop run and one detached handleClient worker    *)
(* per accepted connection).  Texts are TLA+ strings holding the very      *)
(* characters of the source's literals; a NUL byte of a received buffer is *)
(* written as the character NUL below, which occurs in no literal.         *)
(***************************************************************************)
EXTENDS Integers, Sequences, FiniteSets, TLC

(* ---------------------------------------------------------------- bounds *)

\* Connections the accept loop takes before the model stops accepting.
MaxConns == 2

\* Pieces concatenated into one received text of the dispatcher harness.
MaxParts == 2

(* ------------------------------------------------------------- constants *)

\* char buffer[4096] of handleClient.
BufferSize == 4096

\* std::string::npos, the "not found" result of find (any value that is no index).
npos == -1

\* The largest value of int, the type of OnvifServer::port.
INT_MAX == 2147483647

\* The byte 0 of a received buffer (a stand-in character no literal contains).
NUL == "~"

\* int port: the values std::to_string renders.
to_string(n) == ToString(n)

(* --------------------------------------------------------- device store  *)

\* The six identity fields the constructor assigns.
DeviceIdentity ==
    [ device_uuid      |-> "urn:uuid:12345678-1234-1234-1234-123456789012",
      device_name      |-> "ONVIF Camera",
      manufacturer     |-> "Sample Manufacturer",
      model            |-> "Sample Model",
      serial_number    |-> "123456789",
      firmware_version |-> "1.0.0" ]

\* profile2 filled in from a copy of profile1's lines with the token left as it was.
initializeMediaProfiles_SameToken ==
    << [ token |-> "Profile_1", name |-> "MainStream",
         video_encoder_token |-> "VideoEncoder_1",
         audio_encoder_token |-> "AudioEncoder_1",
         width |-> 1920, height |-> 1080, framerate |-> 30, bitrate |-> 4000000 ],
       [ token |-> "Profile_1", name |-> "SubStream",
         video_encoder_token |-> "VideoEncoder_2",
         audio_encoder_token |-> "AudioEncoder_2",
         width |-> 640, height |-> 480, framerate |-> 15, bitrate |-> 1000000 ] >>

\* initializeMediaProfiles: profile1 then profile2, pushed in that order.
initializeMediaProfiles ==
    << [ token |-> "Profile_1", name |-> "MainStream",
         video_encoder_token |-> "VideoEncoder_1",
         audio_encoder_token |-> "AudioEncoder_1",
         width |-> 1920, height |-> 1080, framerate |-> 30, bitrate |-> 4000000 ],
       [ token |-> "Profile_2", name |-> "SubStream",
         video_encoder_token |-> "VideoEncoder_2",
         audio_encoder_token |-> "AudioEncoder_2",
         width |-> 640, height |-> 480, framerate |-> 15, bitrate |-> 1000000 ] >>

(* ------------------------------------------------------ response builders *)

\* The envelope with the Body element left open.
generateSoapEnvelope_BodyLeftOpen(body) ==
    "<?xml version=\"1.0\" encoding=\"UTF-8\"?>\n" \o
    "<SOAP-ENV:Envelope xmlns:SOAP-ENV=\"http://www.w3.org/2003/05/soap-envelope\" " \o
    "xmlns:tds=\"http://www.onvif.org/ver10/device/wsdl\" " \o
    "xmlns:trt=\"http://www.onvif.org/ver10/media/wsdl\" " \o
    "xmlns:tptz=\"http://www.onvif.org/ver20/ptz/wsdl\">\n" \o
    "<SOAP-ENV:Body>\n" \o body \o
    "</SOAP-ENV:Envelope>"


generateSoapEnvelope(body) ==
    "<?xml version=\"1.0\" encoding=\"UTF-8\"?>\n" \o
    "<SOAP-ENV:Envelope xmlns:SOAP-ENV=\"http://www.w3.org/2003/05/soap-envelope\" " \o
    "xmlns:tds=\"http://www.onvif.org/ver10/device/wsdl\" " \o
    "xmlns:trt=\"http://www.onvif.org/ver10/media/wsdl\" " \o
    "xmlns:tptz=\"http://www.onvif.org/ver20/ptz/wsdl\">\n" \o
    "<SOAP-ENV:Body>\n" \o body \o "</SOAP-ENV:Body>\n" \o
    "</SOAP-ENV:Envelope>"

handleGetDeviceInformation(id) ==
    LET manufacturer == id.manufacturer
        model == id.model
        firmware_version == id.firmware_version
        serial_number == id.serial_number
        device_uuid == id.device_uuid
        body ==
            "<tds:GetDeviceInformationResponse>\n" \o
            "<tds:Manufacturer>" \o manufacturer \o "</tds:Manufacturer>\n" \o
            "<tds:Model>" \o model \o "</tds:Model>\n" \o
            "<tds:FirmwareVersion>" \o firmware_version \o "</tds:FirmwareVersion>\n" \o
            "<tds:SerialNumber>" \o serial_number \o "</tds:SerialNumber>\n" \o
            "<tds:HardwareId>" \o device_uuid \o "</tds:HardwareId>\n" \o
            "</tds:GetDeviceInformationResponse>"
    IN  generateSoapEnvelope(body)

\* handleGetCapabilities with the constructor's default port in the PTZ address.
handleGetCapabilities_PtzDefaultPort(port) ==
    LET body ==
            "<tds:GetCapabilitiesResponse>\n" \o
            "<tds:Capabilities>\n" \o
            "<tds:Device>\n" \o
            "<tds:XAddr>http://localhost:" \o to_string(port) \o "/onvif/device_service</tds:XAddr>\n" \o
            "<tds:Network>\n" \o
            "<tds:IPFilter>false</tds:IPFilter>\n" \o
            "<tds:ZeroConfiguration>false</tds:ZeroConfiguration>\n" \o
            "<tds:IPVersion6>false</tds:IPVersion6>\n" \o
            "<tds:DynDNS>false</tds:DynDNS>\n" \o
            "</tds:Network>\n" \o
            "<tds:System>\n" \o
            "<tds:DiscoveryResolve>false</tds:DiscoveryResolve>\n" \o
            "<tds:DiscoveryBye>false</tds:DiscoveryBye>\n" \o
            "<tds:RemoteDiscovery>false</tds:RemoteDiscovery>\n" \o
            "<tds:SystemBackup>false</tds:SystemBackup>\n" \o
            "<tds:SystemLogging>false</tds:SystemLogging>\n" \o
            "<tds:FirmwareUpgrade>false</tds:FirmwareUpgrade>\n" \o
            "</tds:System>\n" \o
            "<tds:IO>\n" \o
            "<tds:InputConnectors>0</tds:InputConnectors>\n" \o
            "<tds:RelayOutputs>0</tds:RelayOutputs>\n" \o
            "</tds:IO>\n" \o
            "<tds:Security>\n" \o
            "<tds:TLS1.1>false</tds:TLS1.1>\n" \o
            "<tds:TLS1.2>true</tds:TLS1.2>\n" \o
            "<tds:OnboardKeyGeneration>false</tds:OnboardKeyGeneration>\n" \o
            "<tds:AccessPolicyConfig>false</tds:AccessPolicyConfig>\n" \o
            "<tds:X.509Token>false</tds:X.509Token>\n" \o
            "<tds:SAMLToken>false</tds:SAMLToken>\n" \o
            "<tds:KerberosToken>false</tds:KerberosToken>\n" \o
            "<tds:RELToken>false</tds:RELToken>\n" \o
            "</tds:Security>\n" \o
            "</tds:Device>\n" \o
            "<tds:Media>\n" \o
            "<tds:XAddr>http://localhost:" \o to_string(port) \o "/onvif/media_service</tds:XAddr>\n" \o
            "<tds:StreamingCapabilities>\n" \o
            "<tds:RTPMulticast>false</tds:RTPMulticast>\n" \o
            "<tds:RTP_TCP>true</tds:RTP_TCP>\n" \o
            "<tds:RTP_RTSP_TCP>true</tds:RTP_RTSP_TCP>\n" \o
            "</tds:StreamingCapabilities>\n" \o
            "</tds:Media>\n" \o
            "<tds:PTZ>\n" \o
            "<tds:XAddr>http://localhost:" \o to_string(8080) \o "/onvif/ptz_service</tds:XAddr>\n" \o
            "</tds:PTZ>\n" \o
            "</tds:Capabilities>\n" \o
            "</tds:GetCapabilitiesResponse>"
    IN  generateSoapEnvelope(body)

\* handleGetCapabilities(): the three service addresses carry the listening port.
handleGetCapabilities(port) ==
    LET body ==
            "<tds:GetCapabilitiesResponse>\n" \o
            "<tds:Capabilities>\n" \o
            "<tds:Device>\n" \o
            "<tds:XAddr>http://localhost:" \o to_string(port) \o "/onvif/device_service</tds:XAddr>\n" \o
            "<tds:Network>\n" \o
            "<tds:IPFilter>false</tds:IPFilter>\n" \o
            "<tds:ZeroConfiguration>false</tds:ZeroConfiguration>\n" \o
            "<tds:IPVersion6>false</tds:IPVersion6>\n" \o
            "<tds:DynDNS>false</tds:DynDNS>\n" \o
            "</tds:Network>\n" \o
            "<tds:System>\n" \o
            "<tds:DiscoveryResolve>false</tds:DiscoveryResolve>\n" \o
            "<tds:DiscoveryBye>false</tds:DiscoveryBye>\n" \o
            "<tds:RemoteDiscovery>false</tds:RemoteDiscovery>\n" \o
            "<tds:SystemBackup>false</tds:SystemBackup>\n" \o
            "<tds:SystemLogging>false</tds:SystemLogging>\n" \o
            "<tds:FirmwareUpgrade>false</tds:FirmwareUpgrade>\n" \o
            "</tds:System>\n" \o
            "<tds:IO>\n" \o
            "<tds:InputConnectors>0</tds:InputConnectors>\n" \o
            "<tds:RelayOutputs>0</tds:RelayOutputs>\n" \o
            "</tds:IO>\n" \o
            "<tds:Security>\n" \o
            "<tds:TLS1.1>false</tds:TLS1.1>\n" \o
            "<tds:TLS1.2>true</tds:TLS1.2>\n" \o
            "<tds:OnboardKeyGeneration>false</tds:OnboardKeyGeneration>\n" \o
            "<tds:AccessPolicyConfig>false</tds:AccessPolicyConfig>\n" \o
            "<tds:X.509Token>false</tds:X.509Token>\n" \o
            "<tds:SAMLToken>false</tds:SAMLToken>\n" \o
            "<tds:KerberosToken>false</tds:KerberosToken>\n" \o
            "<tds:RELToken>false</tds:RELToken>\n" \o
            "</tds:Security>\n" \o
            "</tds:Device>\n" \o
            "<tds:Media>\n" \o
            "<tds:XAddr>http://localhost:" \o to_string(port) \o "/onvif/media_service</tds:XAddr>\n" \o
            "<tds:StreamingCapabilities>\n" \o
            "<tds:RTPMulticast>false</tds:RTPMulticast>\n" \o
            "<tds:RTP_TCP>true</tds:RTP_TCP>\n" \o
            "<tds:RTP_RTSP_TCP>true</tds:RTP_RTSP_TCP>\n" \o
            "</tds:StreamingCapabilities>\n" \o
            "</tds:Media>\n" \o
            "<tds:PTZ>\n" \o
            "<tds:XAddr>http://localhost:" \o to_string(port) \o "/onvif/ptz_service</tds:XAddr>\n" \o
            "</tds:PTZ>\n" \o
            "</tds:Capabilities>\n" \o
            "</tds:GetCapabilitiesResponse>"
    IN  generateSoapEnvelope(body)

\* The text one iteration of handleGetProfiles's loop appends for one profile.
ProfileXml(profile) ==
    "<trt:Profiles token=\"" \o profile.token \o "\" fixed=\"true\">\n" \o
    "<trt:Name>" \o profile.name \o "</trt:Name>\n" \o
    "<trt:VideoSourceConfiguration token=\"VideoSource_1\" fixed=\"true\">\n" \o
    "<trt:Name>VideoSourceConfig</trt:Name>\n" \o
    "<trt:UseCount>2</trt:UseCount>\n" \o
    "<trt:SourceToken>VideoSource_1</trt:SourceToken>\n" \o
    "<trt:Bounds x=\"0\" y=\"0\" width=\"" \o to_string(profile.width) \o "\" height=\"" \o to_string(profile.height) \o "\"/>\n" \o
    "</trt:VideoSourceConfiguration>\n" \o
    "<trt:VideoEncoderConfiguration token=\"" \o profile.video_encoder_token \o "\" fixed=\"true\">\n" \o
    "<trt:Name>VideoEncoderConfig</trt:Name>\n" \o
    "<trt:UseCount>1</trt:UseCount>\n" \o
    "<trt:Encoding>H264</trt:Encoding>\n" \o
    "<trt:Resolution>\n" \o
    "<trt:Width>" \o to_string(profile.width) \o "</trt:Width>\n" \o
    "<trt:Height>" \o to_string(profile.height) \o "</trt:Height>\n" \o
    "</trt:Resolution>\n" \o
    "<trt:Quality>1</trt:Quality>\n" \o
    "<trt:RateControl>\n" \o
    "<trt:FrameRateLimit>" \o to_string(profile.framerate) \o "</trt:FrameRateLimit>\n" \o
    "<trt:EncodingInterval>1</trt:EncodingInterval>\n" \o
    "<trt:BitrateLimit>" \o to_string(profile.bitrate) \o "</trt:BitrateLimit>\n" \o
    "</trt:RateControl>\n" \o
    "<trt:H264>\n" \o
    "<trt:GovLength>30</trt:GovLength>\n" \o
    "<trt:H264Profile>Baseline</trt:H264Profile>\n" \o
    "</trt:H264>\n" \o
    "</trt:VideoEncoderConfiguration>\n" \o
    "</trt:Profiles>\n"

\* The loop putting each profile's text in front of what it has so far.
RECURSIVE ProfilesXml_Prepending(_, _)
ProfilesXml_Prepending(media_profiles, n) ==
    IF n = 0 THEN ""
    ELSE ProfileXml(media_profiles[n]) \o ProfilesXml_Prepending(media_profiles, n - 1)

\* profiles_xml after the range-for over media_profiles[1..n].
RECURSIVE ProfilesXml(_, _)
ProfilesXml(media_profiles, n) ==
    IF n = 0 THEN ""
    ELSE ProfilesXml(media_profiles, n - 1) \o ProfileXml(media_profiles[n])

handleGetProfiles(media_profiles) ==
    LET profiles_xml == ProfilesXml(media_profiles, Len(media_profiles))
        body == "<trt:GetProfilesResponse>\n" \o profiles_xml \o "</trt:GetProfilesResponse>"
    IN  generateSoapEnvelope(body)

\* handleGetStreamUri with the listening port itself in the Uri.
handleGetStreamUri_SamePort(port) ==
    LET body ==
            "<trt:GetStreamUriResponse>\n" \o
            "<trt:MediaUri>\n" \o
            "<trt:Uri>rtsp://localhost:" \o to_string(port) \o "/stream1</trt:Uri>\n" \o
            "<trt:InvalidAfterConnect>false</trt:InvalidAfterConnect>\n" \o
            "<trt:InvalidAfterReboot>false</trt:InvalidAfterReboot>\n" \o
            "<trt:Timeout>PT60S</trt:Timeout>\n" \o
            "</trt:MediaUri>\n" \o
            "</trt:GetStreamUriResponse>"
    IN  generateSoapEnvelope(body)

\* handleGetStreamUri(): the stream is served on the port after the listening one.
handleGetStreamUri(port) ==
    LET body ==
            "<trt:GetStreamUriResponse>\n" \o
            "<trt:MediaUri>\n" \o
            "<trt:Uri>rtsp://localhost:" \o to_string(port + 1) \o "/stream1</trt:Uri>\n" \o
            "<trt:InvalidAfterConnect>false</trt:InvalidAfterConnect>\n" \o
            "<trt:InvalidAfterReboot>false</trt:InvalidAfterReboot>\n" \o
            "<trt:Timeout>PT60S</trt:Timeout>\n" \o
            "</trt:MediaUri>\n" \o
            "</trt:GetStreamUriResponse>"
    IN  generateSoapEnvelope(body)

\* The builder putting the time getCurrentTime returned into its UTCDateTime.
handleGetSystemDateAndTime_Live(current_time) ==
    LET body ==
            "<tds:GetSystemDateAndTimeResponse>\n" \o
            "<tds:SystemDateAndTime>\n" \o
            "<tds:DateTimeType>Manual</tds:DateTimeType>\n" \o
            "<tds:DaylightSavings>false</tds:DaylightSavings>\n" \o
            "<tds:TimeZone>\n" \o
            "<tds:TZ>UTC</tds:TZ>\n" \o
            "</tds:TimeZone>\n" \o
            "<tds:UTCDateTime>" \o current_time \o "\n" \o
            "<tds:Time>\n" \o
            "<tds:Hour>12</tds:Hour>\n" \o
            "<tds:Minute>0</tds:Minute>\n" \o
            "<tds:Second>0</tds:Second>\n" \o
            "</tds:Time>\n" \o
            "<tds:Date>\n" \o
            "<tds:Year>2024</tds:Year>\n" \o
            "<tds:Month>1</tds:Month>\n" \o
            "<tds:Day>1</tds:Day>\n" \o
            "</tds:Date>\n" \o
            "</tds:UTCDateTime>\n" \o
            "</tds:SystemDateAndTime>\n" \o
            "</tds:GetSystemDateAndTimeResponse>"
    IN  generateSoapEnvelope(body)

\* current_time is the value getCurrentTime returned; the body does not use it.
handleGetSystemDateAndTime(current_time) ==
    LET body ==
            "<tds:GetSystemDateAndTimeResponse>\n" \o
            "<tds:SystemDateAndTime>\n" \o
            "<tds:DateTimeType>Manual</tds:DateTimeType>\n" \o
            "<tds:DaylightSavings>false</tds:DaylightSavings>\n" \o
            "<tds:TimeZone>\n" \o
            "<tds:TZ>UTC</tds:TZ>\n" \o
            "</tds:TimeZone>\n" \o
            "<tds:UTCDateTime>\n" \o
            "<tds:Time>\n" \o
            "<tds:Hour>12</tds:Hour>\n" \o
            "<tds:Minute>0</tds:Minute>\n" \o
            "<tds:Second>0</tds:Second>\n" \o
            "</tds:Time>\n" \o
            "<tds:Date>\n" \o
            "<tds:Year>2024</tds:Year>\n" \o
            "<tds:Month>1</tds:Month>\n" \o
            "<tds:Day>1</tds:Day>\n" \o
            "</tds:Date>\n" \o
            "</tds:UTCDateTime>\n" \o
            "</tds:SystemDateAndTime>\n" \o
            "</tds:GetSystemDateAndTimeResponse>"
    IN  generateSoapEnvelope(body)

handlePTZGetConfigurations ==
    LET body ==
            "<tptz:GetConfigurationsResponse>\n" \o
            "<tptz:PTZConfiguration token=\"PTZConfig_1\">\n" \o
            "<tptz:Name>PTZ Configuration</tptz:Name>\n" \o
            "<tptz:UseCount>1</tptz:UseCount>\n" \o
            "<tptz:NodeToken>PTZNode_1</tptz:NodeToken>\n" \o
            "<tptz:DefaultAbsolutePantTiltPositionSpace>http://www.onvif.org/ver10/tptz/PanTiltSpaces/PositionGenericSpace</tptz:DefaultAbsolutePantTiltPositionSpace>\n" \o
            "<tptz:DefaultAbsoluteZoomPositionSpace>http://www.onvif.org/ver10/tptz/ZoomSpaces/PositionGenericSpace</tptz:DefaultAbsoluteZoomPositionSpace>\n" \o
            "<tptz:DefaultRelativePanTiltTranslationSpace>http://www.onvif.org/ver10/tptz/PanTiltSpaces/TranslationGenericSpace</tptz:DefaultRelativePanTiltTranslationSpace>\n" \o
            "<tptz:DefaultRelativeZoomTranslationSpace>http://www.onvif.org/ver10/tptz/ZoomSpaces/TranslationGenericSpace</tptz:DefaultRelativeZoomTranslationSpace>\n" \o
            "<tptz:DefaultContinuousPanTiltVelocitySpace>http://www.onvif.org/ver10/tptz/PanTiltSpaces/VelocityGenericSpace</tptz:DefaultContinuousPanTiltVelocitySpace>\n" \o
            "<tptz:DefaultContinuousZoomVelocitySpace>http://www.onvif.org/ver10/tptz/ZoomSpaces/VelocityGenericSpace</tptz:DefaultContinuousZoomVelocitySpace>\n" \o
            "<tptz:DefaultPTZSpeed>\n" \o
            "<tptz:PanTilt x=\"1.0\" y=\"1.0\" space=\"http://www.onvif.org/ver10/tptz/PanTiltSpaces/GenericSpeedSpace\"/>\n" \o
            "<tptz:Zoom x=\"1.0\" space=\"http://www.onvif.org/ver10/tptz/ZoomSpaces/ZoomGenericSpeedSpace\"/>\n" \o
            "</tptz:DefaultPTZSpeed>\n" \o
            "<tptz:DefaultPTZTimeout>PT5S</tptz:DefaultPTZTimeout>\n" \o
            "<tptz:PanTiltLimits>\n" \o
            "<tptz:Range>\n" \o
            "<tptz:URI>http://www.onvif.org/ver10/tptz/PanTiltSpaces/PositionGenericSpace</tptz:URI>\n" \o
            "<tptz:XRange>\n" \o
            "<tptz:Min>-1.0</tptz:Min>\n" \o
            "<tptz:Max>1.0</tptz:Max>\n" \o
            "</tptz:XRange>\n" \o
            "<tptz:YRange>\n" \o
            "<tptz:Min>-1.0</tptz:Min>\n" \o
            "<tptz:Max>1.0</tptz:Max>\n" \o
            "</tptz:YRange>\n" \o
            "</tptz:Range>\n" \o
            "</tptz:PanTiltLimits>\n" \o
            "<tptz:ZoomLimits>\n" \o
            "<tptz:Range>\n" \o
            "<tptz:URI>http://www.onvif.org/ver10/tptz/ZoomSpaces/PositionGenericSpace</tptz:URI>\n" \o
            "<tptz:XRange>\n" \o
            "<tptz:Min>0.0</tptz:Min>\n" \o
            "<tptz:Max>1.0</tptz:Max>\n" \o
            "</tptz:XRange>\n" \o
            "</tptz:Range>\n" \o
            "</tptz:ZoomLimits>\n" \o
            "</tptz:PTZConfiguration>\n" \o
            "</tptz:GetConfigurationsResponse>"
    IN  generateSoapEnvelope(body)

\* The else branch with the other SOAP 1.2 fault code.
FaultResponse_Sender ==
    LET body ==
            "<SOAP-ENV:Fault>\n" \o
            "<SOAP-ENV:Code>\n" \o
            "<SOAP-ENV:Value>SOAP-ENV:Sender</SOAP-ENV:Value>\n" \o
            "</SOAP-ENV:Code>\n" \o
            "<SOAP-ENV:Reason>\n" \o
            "<SOAP-ENV:Text>Method not implemented</SOAP-ENV:Text>\n" \o
            "</SOAP-ENV:Reason>\n" \o
            "</SOAP-ENV:Fault>"
    IN  generateSoapEnvelope(body)

\* The else branch of processRequest.
FaultResponse ==
    LET body ==
            "<SOAP-ENV:Fault>\n" \o
            "<SOAP-ENV:Code>\n" \o
            "<SOAP-ENV:Value>SOAP-ENV:Receiver</SOAP-ENV:Value>\n" \o
            "</SOAP-ENV:Code>\n" \o
            "<SOAP-ENV:Reason>\n" \o
            "<SOAP-ENV:Text>Method not implemented</SOAP-ENV:Text>\n" \o
            "</SOAP-ENV:Reason>\n" \o
            "</SOAP-ENV:Fault>"
    IN  generateSoapEnvelope(body)

(* ------------------------------------------------------------ dispatcher *)

\* The six operation names processRequest looks for, in the order of its if-chain.
OperationNames ==
    << "GetDeviceInformation", "GetCapabilities", "GetProfiles",
       "GetStreamUri", "GetSystemDateAndTime", "GetConfigurations" >>

\* find as a test of the start of str only.
find_AtStart(str, sub) ==
    IF Len(sub) <= Len(str) /\ SubSeq(str, 1, Len(sub)) = sub THEN 0 ELSE npos

\* std::string::find(sub): the first index (0-based) at which sub occurs, or npos.
find(str, sub) ==
    LET hits == { i \in 1..(Len(str) - Len(sub) + 1) :
                    SubSeq(str, i, i + Len(sub) - 1) = sub }
    IN  IF hits = {} THEN npos
        ELSE (CHOOSE i \in hits : \A j \in hits : i <= j) - 1

\* The if-chain deciding by where the names stand in the text: the name found
\* earliest wins.
Branch_ByPosition(request) ==
    LET at == [k \in 1..6 |-> find(request, OperationNames[k])]
        found == { k \in 1..6 : at[k] # npos }
    IN  IF found = {} THEN 7
        ELSE CHOOSE k \in found : \A j \in found : at[k] <= at[j]

\* The branch of processRequest's if-chain taken for request: 1..6, or 7 for the else.
Branch(request) ==
    IF find(request, "GetDeviceInformation") # npos THEN 1
    ELSE IF find(request, "GetCapabilities") # npos THEN 2
    ELSE IF find(request, "GetProfiles") # npos THEN 3
    ELSE IF find(request, "GetStreamUri") # npos THEN 4
    ELSE IF find(request, "GetSystemDateAndTime") # npos THEN 5
    ELSE IF find(request, "GetConfigurations") # npos THEN 6
    ELSE 7

\* A dispatcher that looks at the URL path first and serves the media endpoint
\* with GetProfiles.
processRequest_ByPath(request, srv, current_time) ==
    LET b == IF find(request, "/onvif/media_service") # npos THEN 3 ELSE Branch(request)
    IN  IF b = 1 THEN handleGetDeviceInformation(srv.identity)
        ELSE IF b = 2 THEN handleGetCapabilities(srv.port)
        ELSE IF b = 3 THEN handleGetProfiles(srv.media_profiles)
        ELSE IF b = 4 THEN handleGetStreamUri(srv.port)
        ELSE IF b = 5 THEN handleGetSystemDateAndTime(current_time)
        ELSE IF b = 6 THEN handlePTZGetConfigurations
        ELSE FaultResponse

\* The response of processRequest; current_time is what getCurrentTime returns
\* if the GetSystemDateAndTime branch calls it.
processRequest(request, srv, current_time) ==
    LET b == Branch(request)
    IN  IF b = 1 THEN handleGetDeviceInformation(srv.identity)
        ELSE IF b = 2 THEN handleGetCapabilities(srv.port)
        ELSE IF b = 3 THEN handleGetProfiles(srv.media_profiles)
        ELSE IF b = 4 THEN handleGetStreamUri(srv.port)
        ELSE IF b = 5 THEN handleGetSystemDateAndTime(current_time)
        ELSE IF b = 6 THEN handlePTZGetConfigurations
        ELSE FaultResponse

(* -------------------------------------------------------------- transport *)

\* std::string request(buffer): the characters of buffer before its first NUL.
CString(buffer) ==
    LET z == find(buffer, NUL)
    IN  IF z = npos THEN buffer ELSE SubSeq(buffer, 1, z)

\* http_response of handleClient.
HttpResponse(soap_response) ==
    "HTTP/1.1 200 OK\r\n" \o
    "Content-Type: application/soap+xml; charset=utf-8\r\n" \o
    "Content-Length: " \o to_string(Len(soap_response)) \o "\r\n" \o
    "Connection: close\r\n" \o
    "\r\n" \o soap_response

Min(a, b) == IF a <= b THEN a ELSE b

\* put_time(gmtime(&t), "%Y-%m-%dT%H:%M:%SZ") over a broken-down time.
put_time(tm) == tm.ymd \o "T" \o tm.hms \o "Z"

\* Wall-clock instants system_clock::now() may return.
Clock ==
    { [ymd |-> "2024-01-01", hms |-> "12:00:00"],
      [ymd |-> "2026-11-06", hms |-> "08:30:15"] }

\* gmtime's static struct tm before the first call: zero-initialised.
ZeroTm == [ymd |-> "1900-01-00", hms |-> "00:00:00"]

\* What a reader of gmtime's static struct tm may see while another thread is
\* inside gmtime too: any mixture of the fields being written.
TornTm == [ymd : {t.ymd : t \in Clock}, hms : {t.hms : t \in Clock}]

(* ------------------------------------------------------------------ state *)

VARIABLES
    port,            \* OnvifServer::port
    identity,        \* device_uuid, device_name, manufacturer, model, serial_number, firmware_version
    media_profiles,  \* OnvifServer::media_profiles
    running,         \* OnvifServer::running
    server_socket,   \* OnvifServer::server_socket
    open_fds,        \* the descriptors open in the process
    main_pc,         \* where main is
    run_pc,          \* where the thread running run() is
    nconn,           \* connections accepted so far
    workers,         \* one handleClient thread per accepted connection
    gmtime_tm,       \* the static struct tm std::gmtime writes and returns
    listen_closes,   \* calls of close(server_socket) made so far
    stale_closes     \* those of them made when the listening socket was not open

vars == << port, identity, media_profiles, running, server_socket, open_fds,
           main_pc, run_pc, nconn, workers, gmtime_tm, listen_closes, stale_closes >>

closes == << listen_closes, stale_closes >>

store == << port, identity, media_profiles >>

Conns == 1..MaxConns

\* The server object as the builders read it.
Server == [port |-> port, identity |-> identity, media_profiles |-> media_profiles]

\* The lowest descriptor not open: what socket() and accept() return.
LowestFree(fds) == CHOOSE n \in 3..(4 + MaxConns) : n \notin fds /\ \A m \in 3..(n - 1) : m \in fds

\* A connection slot no thread has been spawned for.
NoWorker ==
    [ pc |-> "none", client_socket |-> -1, sent |-> [head |-> "", body |-> ""],
      bytes_read |-> 0, buffer |-> "", request |-> "",
      current_time |-> "", soap_response |-> "", sends |-> 0, wire |-> "" ]

(* ---------------------------------------------------------------- clients *)

CRLF == "\r\n"

\* Request lines and headers a client may put before the body.
PlainHead ==
    "POST /onvif/device_service HTTP/1.1" \o CRLF \o "Host: localhost" \o CRLF \o CRLF

Heads ==
    { PlainHead,
      "POST /onvif/media_service HTTP/1.1" \o CRLF \o "Host: localhost" \o CRLF \o CRLF,
      "POST /onvif/GetDeviceInformation HTTP/1.1" \o CRLF \o "Host: localhost" \o CRLF \o CRLF }

\* Bodies a client may send.
Bodies ==
    { "<s:Envelope><s:Body><tds:GetSystemDateAndTime/></s:Body></s:Envelope>",
      "garbage" }

\* What one client sends on its connection: a request, or nothing at all.
ClientSends ==
    { s \in [head : Heads, body : Bodies] : s.head = PlainHead \/ s.body = "garbage" }
        \cup { [head |-> "", body |-> ""] }

\* Port numbers an OnvifServer is constructed with.
Ports == {8080, 554, 65535}

\* Values the unassigned member server_socket may hold after construction.
Unassigned == {-1, 0}

(* ----------------------------------------------------------- construction *)

\* OnvifServer server(8080) in main: the constructor's assignments.
Constructed(p) ==
    /\ port = p
    /\ running = FALSE
    /\ identity = DeviceIdentity
    /\ media_profiles = initializeMediaProfiles
    /\ server_socket \in Unassigned

Init ==
    /\ Constructed(8080)
    /\ open_fds = {0, 1, 2}
    /\ main_pc = "start"
    /\ run_pc = "idle"
    /\ nconn = 0
    /\ workers = [c \in Conns |-> NoWorker]
    /\ gmtime_tm = ZeroTm
    /\ listen_closes = 0
    /\ stale_closes = 0

(* -------------------------------------------------------------- lifecycle *)

\* The descriptor in server_socket is the listening socket start() opened, and
\* no close has been called on it.
ListenOpen == main_pc # "start" /\ server_socket >= 0 /\ listen_closes = 0

\* start(): socket, bind and listen, each of which may fail; after a failed bind
\* or listen start() closes the socket it opened and leaves its number in
\* server_socket.
Start ==
    /\ main_pc = "start"
    /\ \E outcome \in {"socket_failed", "bind_failed", "listen_failed", "ok"} :
         LET fd == LowestFree(open_fds) IN
         CASE outcome = "socket_failed" ->
                /\ server_socket' = -1
                /\ UNCHANGED << open_fds, running, closes >>
                /\ main_pc' = "failed"
           [] outcome \in {"bind_failed", "listen_failed"} ->
                /\ server_socket' = fd
                /\ open_fds' = open_fds
                /\ listen_closes' = listen_closes + 1
                /\ UNCHANGED << running, stale_closes >>
                /\ main_pc' = "failed"
           [] outcome = "ok" ->
                /\ server_socket' = fd
                /\ open_fds' = open_fds \cup {fd}
                /\ running' = TRUE
                /\ UNCHANGED closes
                /\ main_pc' = "spawn"
    /\ UNCHANGED << store, run_pc, nconn, workers, gmtime_tm >>

\* std::thread server_thread(&OnvifServer::run, &server) in main.
SpawnRun ==
    /\ main_pc = "spawn"
    /\ main_pc' = "wait"
    /\ run_pc' = "loop"
    /\ UNCHANGED << store, closes, running, server_socket, open_fds, nconn, workers, gmtime_tm >>

\* stop(): clear running, call close on the number in server_socket if it is not
\* negative, and leave the number there.  An accept() of another thread blocked
\* on the socket when it is closed keeps waiting on the socket it holds (Linux)
\* or is woken with an error (other systems).
stop ==
    /\ running' = FALSE
    /\ UNCHANGED server_socket
    /\ IF server_socket >= 0
       THEN /\ open_fds' = open_fds \ {server_socket}
            /\ listen_closes' = listen_closes + 1
            /\ stale_closes' = IF ListenOpen THEN stale_closes ELSE stale_closes + 1
            /\ run_pc' \in IF ListenOpen /\ run_pc = "in_accept"
                           THEN {"in_accept", "accept_woken"}
                           ELSE {run_pc}
       ELSE UNCHANGED << open_fds, closes, run_pc >>

\* std::cin.get() returns and main calls server.stop().
Stop ==
    /\ main_pc = "wait"
    /\ stop
    /\ main_pc' = "join"
    /\ UNCHANGED << store, nconn, workers, gmtime_tm >>

\* server_thread.join() returns once run() has returned.
Join ==
    /\ main_pc = "join"
    /\ run_pc = "returned"
    /\ main_pc' = "return"
    /\ UNCHANGED << store, closes, running, server_socket, open_fds, run_pc, nconn, workers, gmtime_tm >>

\* A detached thread still running when the process exits dies where it is.
Killed(wk) == IF wk.pc \in {"none", "done"} THEN wk ELSE [NoWorker EXCEPT !.pc = "killed"]

\* main returns (after join, or after a failed start): ~OnvifServer calls stop(),
\* and the process exits.
Destructor ==
    /\ main_pc \in {"return", "failed"}
    /\ stop
    /\ main_pc' = "exited"
    /\ workers' = [c \in Conns |-> Killed(workers[c])]
    /\ UNCHANGED << store, nconn, gmtime_tm >>

\* while (running) in run().
RunLoop ==
    /\ main_pc # "exited"
    /\ run_pc = "loop"
    /\ run_pc' = IF running THEN "accept" ELSE "returned"
    /\ UNCHANGED << store, closes, running, server_socket, open_fds, main_pc, nconn, workers, gmtime_tm >>

\* run() calls accept() on the listening socket and waits for a connection.
AcceptCall ==
    /\ run_pc = "accept"
    /\ main_pc # "exited"
    /\ ListenOpen
    /\ run_pc' = "in_accept"
    /\ UNCHANGED << store, closes, running, server_socket, open_fds, main_pc, nconn, workers, gmtime_tm >>

\* A client connects: accept() returns its socket on the lowest free descriptor;
\* run() spawns and detaches a handleClient thread.
Accept ==
    /\ run_pc = "in_accept"
    /\ main_pc # "exited"
    /\ nconn < MaxConns
    /\ \E s \in ClientSends :
         LET fd == LowestFree(open_fds) IN
         /\ workers' = [workers EXCEPT ![nconn + 1] =
                          [NoWorker EXCEPT !.pc = "read", !.client_socket = fd, !.sent = s]]
         /\ open_fds' = open_fds \cup {fd}
    /\ nconn' = nconn + 1
    /\ run_pc' = "loop"
    /\ UNCHANGED << store, closes, running, server_socket, main_pc, gmtime_tm >>

\* accept() returns -1: it is called on the closed descriptor, or the close woke it.
AcceptFails ==
    /\ \/ run_pc = "accept" /\ ~ ListenOpen
       \/ run_pc = "accept_woken"
    /\ main_pc # "exited"
    /\ run_pc' = "loop"
    /\ UNCHANGED << store, closes, running, server_socket, open_fds, main_pc, nconn, workers, gmtime_tm >>

(* ----------------------------------------------------------- handleClient *)

\* read(client_socket, buffer, sizeof(buffer) - 1): an error (-1), end of stream
\* (0, the client sent nothing), or the bytes the client sent, which arrive
\* together, cut to the sizeof(buffer) - 1 the call asks for.
Read(w) ==
    /\ main_pc # "exited"
    /\ workers[w].pc = "read"
    /\ LET data == workers[w].sent.head \o workers[w].sent.body
       IN  \E n \in {-1, Min(Len(data), BufferSize - 1)} :
             workers' = [workers EXCEPT
                 ![w].sent = NoWorker.sent,
                 ![w].bytes_read = n,
                 ![w].buffer = IF n > 0 THEN SubSeq(data, 1, n) ELSE "",
                 ![w].pc = IF n > 0 THEN "process" ELSE "close"]
    /\ UNCHANGED << store, closes, running, server_socket, open_fds, main_pc, run_pc, nconn, gmtime_tm >>

\* std::string request(buffer), then processRequest(request) up to its return, or,
\* in the GetSystemDateAndTime branch, up to getCurrentTime's call of std::gmtime,
\* which writes the broken-down time of now into its static struct tm.
ProcessRequest(w) ==
    /\ main_pc # "exited"
    /\ workers[w].pc = "process"
    /\ LET request == CString(workers[w].buffer) IN
       IF Branch(request) = 5
       THEN /\ \E now \in Clock : gmtime_tm' = now
            /\ workers' = [workers EXCEPT ![w].request = request, ![w].pc = "gmtime"]
       ELSE /\ workers' = [workers EXCEPT
                 ![w].request = request,
                 ![w].soap_response = processRequest(request, Server, ""),
                 ![w].pc = "send"]
            /\ UNCHANGED gmtime_tm
    /\ UNCHANGED << store, closes, running, server_socket, open_fds, main_pc, run_pc, nconn >>

\* Workers inside getCurrentTime between gmtime's write and put_time's read.
InGmtime == { c \in Conns : workers[c].pc = "gmtime" }

\* The rest of getCurrentTime and handleGetSystemDateAndTime: put_time reads the
\* static struct tm (torn if another thread is inside gmtime) and the body is built.
PutTime(w) ==
    /\ main_pc # "exited"
    /\ workers[w].pc = "gmtime"
    /\ \E tm \in (IF InGmtime = {w} THEN {gmtime_tm} ELSE TornTm) :
         workers' = [workers EXCEPT
             ![w].current_time = put_time(tm),
             ![w].soap_response = processRequest(workers[w].request, Server, put_time(tm)),
             ![w].pc = "send"]
    /\ UNCHANGED << store, closes, running, server_socket, open_fds, main_pc, run_pc, nconn, gmtime_tm >>

\* send(client_socket, http_response): the one write of handleClient.
Send(w) ==
    /\ main_pc # "exited"
    /\ workers[w].pc = "send"
    /\ workers' = [workers EXCEPT
         ![w].current_time = "",
         ![w].wire = HttpResponse(workers[w].soap_response),
         ![w].sends = workers[w].sends + 1,
         ![w].pc = "close"]
    /\ UNCHANGED << store, closes, running, server_socket, open_fds, main_pc, run_pc, nconn, gmtime_tm >>

\* close(client_socket); the thread ends and its locals with it.  What stays in
\* the slot is the record of the connection: the request text, the response
\* processRequest returned, the number of sends and the bytes sent.
Close(w) ==
    /\ main_pc # "exited"
    /\ workers[w].pc = "close"
    /\ workers' = [workers EXCEPT ![w] =
         [NoWorker EXCEPT !.pc = "done",
                          !.request = workers[w].request,
                          !.soap_response = workers[w].soap_response,
                          !.sends = workers[w].sends, !.wire = workers[w].wire]]
    /\ open_fds' = open_fds \ {workers[w].client_socket}
    /\ UNCHANGED << store, closes, running, server_socket, main_pc, run_pc, nconn, gmtime_tm >>

(* ---------------------------------------------------------- specification *)

Next ==
    \/ Start
    \/ SpawnRun
    \/ Stop
    \/ Join
    \/ Destructor
    \/ RunLoop
    \/ AcceptCall
    \/ Accept
    \/ AcceptFails
    \/ \E w \in Conns : Read(w)
    \/ \E w \in Conns : ProcessRequest(w)
    \/ \E w \in Conns : PutTime(w)
    \/ \E w \in Conns : Send(w)
    \/ \E w \in Conns : Close(w)

Spec == Init /\ [][Next]_vars

\* The steps the thread running run() takes on its own.
RunThread == RunLoop \/ AcceptCall \/ AcceptFails

\* The steps main takes on its own; Stop waits for a line on standard input.
MainThread == Start \/ SpawnRun \/ Join \/ Destructor

\* The steps a handleClient thread takes on its own; Read waits for the client.
WorkerThread(w) == ProcessRequest(w) \/ PutTime(w) \/ Send(w) \/ Close(w)

\* The server under a fair scheduler: a thread that can take a step of its own
\* is eventually run.  Clients and standard input are under no obligation.
FairSpec ==
    /\ Init /\ [][Next]_vars
    /\ WF_vars(RunThread)
    /\ WF_vars(MainThread)
    /\ \A w \in Conns : WF_vars(WorkerThread(w))

(* ------------------------------------------------------------ XML reading *)
(* A reader of XML 1.0 documents, used to state what a response is: the    *)
(* document is cut into tags and character data, the tags are checked      *)
(* against the grammar and matched with a stack.                           *)

Letters ==
    { "A","B","C","D","E","F","G","H","I","J","K","L","M","N","O","P","Q","R",
      "S","T","U","V","W","X","Y","Z","a","b","c","d","e","f","g","h","i","j",
      "k","l","m","n","o","p","q","r","s","t","u","v","w","x","y","z" }

Digits == { "0","1","2","3","4","5","6","7","8","9" }

NameStartChar == Letters \cup { "_", ":" }

NameChar == NameStartChar \cup Digits \cup { "-", "." }

WhiteSpace == { " ", "\n", "\r", "\t" }

CharAt(str, i) == SubSeq(str, i, i)

\* str has sub somewhere in it.
Contains(str, sub) ==
    \E i \in 1..(Len(str) - Len(sub) + 1) : SubSeq(str, i, i + Len(sub) - 1) = sub

\* The indices of str holding a character of cs.
Positions(str, cs) == { i \in 1..Len(str) : CharAt(str, i) \in cs }

\* The least element of a set of numbers that is >= p, or 0 if there is none.
LeastFrom(S, p) ==
    LET T == { i \in S : i >= p }
    IN  IF T = {} THEN 0 ELSE CHOOSE i \in T : \A j \in T : i <= j

\* An XML Name.
IsName(n) ==
    /\ Len(n) > 0
    /\ CharAt(n, 1) \in NameStartChar
    /\ \A i \in 2..Len(n) : CharAt(n, i) \in NameChar

IsBlank(t) == \A i \in 1..Len(t) : CharAt(t, i) \in WhiteSpace

\* The attributes of a tag, read from the text after the element name: a sequence
\* of [n |-> name, v |-> value]; an entry with the empty name marks text that is
\* no attribute list.
RECURSIVE Attributes(_)
Attributes(rest) ==
    IF IsBlank(rest) THEN << >>
    ELSE LET ns == LeastFrom(Positions(rest, NameStartChar), 1)
             eq == LeastFrom(Positions(rest, {"="}), 1)
             q1 == eq + 1
             q2 == LeastFrom(Positions(rest, {"\""}), q1 + 1)
         IN  IF \/ ns < 2 \/ eq <= ns \/ q2 = 0
                \/ ~ IsBlank(SubSeq(rest, 1, ns - 1))
                \/ ~ IsName(SubSeq(rest, ns, eq - 1))
                \/ CharAt(rest, q1) # "\""
                \/ Contains(SubSeq(rest, q1 + 1, q2 - 1), "<")
                \/ Contains(SubSeq(rest, q1 + 1, q2 - 1), "&")
             THEN << [n |-> "", v |-> rest] >>
             ELSE << [n |-> SubSeq(rest, ns, eq - 1), v |-> SubSeq(rest, q1 + 1, q2 - 1)] >>
                  \o Attributes(SubSeq(rest, q2 + 1, Len(rest)))

\* One tag "<...>" as an event: its kind, element name and attributes.
Tag(t) ==
    LET n == Len(t)
        isDecl == n >= 4 /\ SubSeq(t, 1, 2) = "<?" /\ SubSeq(t, n - 1, n) = "?>"
        isClose == n >= 3 /\ SubSeq(t, 1, 2) = "</"
        isEmpty == n >= 3 /\ SubSeq(t, n - 1, n) = "/>"
        inner == IF isDecl THEN SubSeq(t, 3, n - 2)
                 ELSE IF isClose THEN SubSeq(t, 3, n - 1)
                 ELSE IF isEmpty THEN SubSeq(t, 2, n - 2)
                 ELSE SubSeq(t, 2, n - 1)
        ws == LeastFrom(Positions(inner, WhiteSpace), 1)
        name == IF ws = 0 THEN inner ELSE SubSeq(inner, 1, ws - 1)
        rest == IF ws = 0 THEN "" ELSE SubSeq(inner, ws, Len(inner))
        attrs == Attributes(rest)
        names == { attrs[i].n : i \in 1..Len(attrs) }
        good == /\ IsName(name)
                /\ \A i \in 1..Len(attrs) : attrs[i].n # ""
                /\ Cardinality(names) = Len(attrs)
                /\ isClose => attrs = << >>
    IN  IF ~ good THEN [k |-> "bad", n |-> t, a |-> << >>]
        ELSE [k |-> IF isDecl THEN "decl" ELSE IF isClose THEN "close"
                    ELSE IF isEmpty THEN "empty" ELSE "open",
              n |-> name, a |-> attrs]

\* The numbers of S, all within lo..hi, as an increasing sequence.
RECURSIVE Increasing(_, _, _)
Increasing(S, lo, hi) ==
    IF S = {} THEN << >>
    ELSE IF lo = hi THEN << lo >>
    ELSE LET mid == (lo + hi) \div 2
         IN  Increasing({ x \in S : x <= mid }, lo, mid)
               \o Increasing({ x \in S : x > mid }, mid + 1, hi)

\* The document as its sequence of events, in document order: the character data
\* before the first tag, the first tag, the character data after it, and so on.
Events(str) ==
    LET gt == Positions(str, {">"})
        starts == Increasing(Positions(str, {"<"}), 1, Len(str))
        n == Len(starts)
        end == [k \in 1..n |-> LeastFrom(gt, starts[k])]
        text(k) == [k |-> "text", a |-> << >>,
                    n |-> SubSeq(str, IF k = 1 THEN 1 ELSE end[k - 1] + 1,
                                      IF k = n + 1 THEN Len(str) ELSE starts[k] - 1)]
        tag(k) == IF end[k] = 0 \/ (k < n /\ starts[k + 1] < end[k])
                  THEN [k |-> "bad", n |-> "<", a |-> << >>]
                  ELSE Tag(SubSeq(str, starts[k], end[k]))
    IN  [m \in 1..(2 * n + 1) |-> IF m % 2 = 1 THEN text((m + 1) \div 2) ELSE tag(m \div 2)]

\* One event applied to the reader's state.  ok: the grammar holds so far; open:
\* the names of the open elements, outermost first; roots: elements seen outside
\* every other; nodes: every element and character-data event with the path of
\* element names leading to it (its own name last, for an element).
Step(e, first, st) ==
    LET depth == Len(st.open)
        node(path) == [path |-> path, k |-> e.k, n |-> e.n, a |-> e.a]
    IN  CASE ~ st.ok -> st
          [] st.ok /\ e.k = "bad" -> [st EXCEPT !.ok = FALSE]
          [] st.ok /\ e.k = "decl" -> [st EXCEPT !.ok = (first /\ e.n = "xml")]
          [] st.ok /\ e.k = "text" ->
               IF e.n = "" THEN st
               ELSE [st EXCEPT !.ok = (IF depth = 0 THEN IsBlank(e.n) ELSE ~ Contains(e.n, "&")),
                               !.nodes = IF depth = 0 THEN @ ELSE Append(@, node(st.open))]
          [] st.ok /\ e.k = "open" ->
               [st EXCEPT !.open = Append(@, e.n),
                          !.roots = IF depth = 0 THEN @ + 1 ELSE @,
                          !.nodes = Append(@, node(Append(st.open, e.n)))]
          [] st.ok /\ e.k = "empty" ->
               [st EXCEPT !.roots = IF depth = 0 THEN @ + 1 ELSE @,
                          !.nodes = Append(@, node(Append(st.open, e.n)))]
          [] st.ok /\ e.k = "close" ->
               IF depth > 0 /\ st.open[depth] = e.n
               THEN [st EXCEPT !.open = SubSeq(@, 1, depth - 1)]
               ELSE [st EXCEPT !.ok = FALSE]

\* The events ev[lo..hi] applied in order to the reader's state.
RECURSIVE Match(_, _, _, _)
Match(ev, lo, hi, st) ==
    IF lo > hi THEN st
    ELSE IF lo = hi THEN Step(ev[lo], lo = 2 /\ ev[1].n = "", st)
    ELSE LET mid == (lo + hi) \div 2
             left == Match(ev, lo, mid, st)
         IN  IF left.ok THEN Match(ev, mid + 1, hi, left) ELSE left

\* The document read: well-formed iff ok, nothing left open and one root element.
Document(str) ==
    LET ev == Events(str)
    IN  Match(ev, 1, Len(ev), [ok |-> TRUE, open |-> << >>, roots |-> 0, nodes |-> << >>])

WellFormed(doc) == doc.ok /\ doc.open = << >> /\ doc.roots = 1

\* The elements of the document found at a path of element names, in document order.
ElementsAt(doc, path) ==
    LET idx == { i \in 1..Len(doc.nodes) :
                   doc.nodes[i].k \in {"open", "empty"} /\ doc.nodes[i].path = path }
        order == Increasing(idx, 1, Len(doc.nodes))
    IN  [i \in 1..Len(order) |-> doc.nodes[order[i]]]

\* The child elements of the elements at a path, in document order.
ChildrenAt(doc, path) ==
    LET idx == { i \in 1..Len(doc.nodes) :
                   /\ doc.nodes[i].k \in {"open", "empty"}
                   /\ Len(doc.nodes[i].path) = Len(path) + 1
                   /\ SubSeq(doc.nodes[i].path, 1, Len(path)) = path }
        order == Increasing(idx, 1, Len(doc.nodes))
    IN  [i \in 1..Len(order) |-> doc.nodes[order[i]]]

\* The character data directly inside the elements at a path, in document order.
TextsAt(doc, path) ==
    LET idx == { i \in 1..Len(doc.nodes) :
                   doc.nodes[i].k = "text" /\ doc.nodes[i].path = path }
        order == Increasing(idx, 1, Len(doc.nodes))
    IN  [i \in 1..Len(order) |-> doc.nodes[order[i]].n]

\* The value of attribute name of an element, or "" if it has none.
Attribute(el, name) ==
    LET hits == { i \in 1..Len(el.a) : el.a[i].n = name }
    IN  IF hits = {} THEN "" ELSE el.a[CHOOSE i \in hits : TRUE].v

(* ------------------------------------------------ the dispatcher on texts *)
(* A second specification: one connection whose read has delivered a text  *)
(* put together from operation names and other pieces, on a server         *)
(* constructed with any of Ports; the worker then runs processRequest on   *)
(* it and answers.                                                         *)

\* The pieces a received text is put together from.
Pieces ==
    { OperationNames[k] : k \in 1..6 }
        \cup { "garbage", "Get", "Profiles", "<tds:", NUL }

\* The concatenation of a sequence of strings.
RECURSIVE Concat(_)
Concat(parts) == IF parts = << >> THEN "" ELSE parts[1] \o Concat(Tail(parts))

\* Every text of at most MaxParts pieces, the empty text excluded: read returned > 0.
Texts ==
    { Concat(parts) : parts \in UNION { [1..n -> Pieces] : n \in 1..MaxParts } }

InitDispatch ==
    /\ port \in Ports
    /\ identity = DeviceIdentity
    /\ media_profiles = initializeMediaProfiles
    /\ running = TRUE
    /\ server_socket = 3
    /\ open_fds = {0, 1, 2, 3, 4}
    /\ main_pc = "wait"
    /\ run_pc = "in_accept"
    /\ nconn = 1
    /\ gmtime_tm = ZeroTm
    /\ listen_closes = 0
    /\ stale_closes = 0
    /\ \E text \in Texts :
         workers = [c \in Conns |->
                      IF c = 1
                      THEN [NoWorker EXCEPT !.pc = "process", !.client_socket = 4,
                                            !.bytes_read = Len(text), !.buffer = text]
                      ELSE NoWorker]

NextDispatch ==
    \/ \E w \in Conns : ProcessRequest(w)
    \/ \E w \in Conns : PutTime(w)
    \/ \E w \in Conns : Send(w)
    \/ \E w \in Conns : Close(w)

SpecDispatch == InitDispatch /\ [][NextDispatch]_vars

(* ------------------------------------------------- claims: the dispatcher *)

Envelope == << "SOAP-ENV:Envelope" >>

EnvelopeBody == << "SOAP-ENV:Envelope", "SOAP-ENV:Body" >>

\* The element each handler puts in the Body.
ResponseElement ==
    << "tds:GetDeviceInformationResponse", "tds:GetCapabilitiesResponse",
       "trt:GetProfilesResponse", "trt:GetStreamUriResponse",
       "tds:GetSystemDateAndTimeResponse", "tptz:GetConfigurationsResponse" >>

\* The operation names a text contains.
Present(text) == { k \in 1..6 : Contains(text, OperationNames[k]) }

\* What the k-th handler can return on this server.
Built(k) ==
    CASE k = 1 -> { handleGetDeviceInformation(identity) }
      [] k = 2 -> { handleGetCapabilities(port) }
      [] k = 3 -> { handleGetProfiles(media_profiles) }
      [] k = 4 -> { handleGetStreamUri(port) }
      [] k = 5 -> { handleGetSystemDateAndTime(put_time(tm)) : tm \in TornTm }
      [] k = 6 -> { handlePTZGetConfigurations }

\* Workers for which processRequest has returned and whose response is at hand.
Returned == { w \in Conns : workers[w].pc \in {"send", "close"} }

\* Workers about to send the response processRequest returned.
Sending == { w \in Conns : workers[w].pc = "send" }

\* C1: a request text containing operation names is answered with the response
\* of the handler of one of the names it contains, and of no other; a text that
\* contains none of the six names, the empty text included, gets the Fault.
C1_Classification ==
    \A w \in Returned :
        LET r == workers[w].soap_response
            P == Present(workers[w].request)
        IN  /\ P = {} => r = FaultResponse
            /\ P # {} => r # FaultResponse /\ \E k \in P : r \in Built(k)
            /\ \A k \in (1..6) \ P : r \notin Built(k)

\* C1 witness: a name with text before it has been answered by its handler.
C1_Witness ==
    \E w \in Returned :
        /\ workers[w].request = "garbage" \o "GetStreamUri"
        /\ workers[w].soap_response = handleGetStreamUri(port)

\* C2: a request text containing two or more operation names is answered by the
\* handler of the name that is first in the fixed order, wherever the names stand.
C2_FirstMatchWins ==
    \A w \in Returned :
        LET P == Present(workers[w].request)
        IN  Cardinality(P) >= 2 =>
                workers[w].soap_response \in Built(CHOOSE k \in P : \A j \in P : k <= j)

\* C2 witness: GetCapabilities standing before GetDeviceInformation in the text
\* has been answered as GetDeviceInformation.
C2_Witness ==
    \E w \in Returned :
        /\ workers[w].request = "GetCapabilities" \o "GetDeviceInformation"
        /\ workers[w].soap_response = handleGetDeviceInformation(identity)

\* Envelope/Body holds a Fault with Code/Value SOAP-ENV:Receiver and Reason/Text
\* "Method not implemented".
IsReceiverFault(doc) ==
    /\ Len(ElementsAt(doc, EnvelopeBody \o << "SOAP-ENV:Fault" >>)) = 1
    /\ TextsAt(doc, EnvelopeBody \o << "SOAP-ENV:Fault", "SOAP-ENV:Code", "SOAP-ENV:Value" >>)
         = << "SOAP-ENV:Receiver" >>
    /\ TextsAt(doc, EnvelopeBody \o << "SOAP-ENV:Fault", "SOAP-ENV:Reason", "SOAP-ENV:Text" >>)
         = << "Method not implemented" >>

\* The document has a Fault element anywhere.
HasFault(doc) ==
    \E i \in 1..Len(doc.nodes) :
        doc.nodes[i].k \in {"open", "empty"} /\ doc.nodes[i].n = "SOAP-ENV:Fault"

\* C3: a request text containing none of the six names is answered with an
\* envelope whose Body holds the Receiver / "Method not implemented" Fault, and
\* the response to a text containing one of the names holds no Fault.
C3_FaultForUnrecognized ==
    \A w \in Sending :
        LET doc == Document(workers[w].soap_response)
        IN  IF Present(workers[w].request) = {}
            THEN IsReceiverFault(doc)
            ELSE ~ HasFault(doc)

\* C3 witness: "garbage" has been answered with the Fault.
C3_Witness ==
    \E w \in Sending :
        /\ workers[w].request = "garbage"
        /\ IsReceiverFault(Document(workers[w].soap_response))

\* The namespace prefix of an element name, or "" if it has none.
Prefix(name) ==
    LET c == LeastFrom(Positions(name, {":"}), 1)
    IN  IF c = 0 THEN "" ELSE SubSeq(name, 1, c - 1)

\* Every element of the document has a prefix the element el declares.
PrefixesDeclaredBy(doc, el) ==
    \A i \in 1..Len(doc.nodes) :
        doc.nodes[i].k \in {"open", "empty"} =>
            Attribute(el, "xmlns:" \o Prefix(doc.nodes[i].n)) # ""

\* C4: every response is a well-formed XML document with the one root element
\* SOAP-ENV:Envelope, which declares every prefix used and whose only child is
\* one SOAP-ENV:Body, whose only child is the response element of an operation
\* named in the request, or the Fault.
C4_WellFormedEnvelope ==
    \A w \in Sending :
        LET doc == Document(workers[w].soap_response)
            P == Present(workers[w].request)
            roots == ElementsAt(doc, Envelope)
            inEnvelope == ChildrenAt(doc, Envelope)
            inBody == ChildrenAt(doc, EnvelopeBody)
        IN  /\ WellFormed(doc)
            /\ Len(roots) = 1
            /\ PrefixesDeclaredBy(doc, roots[1])
            /\ Len(inEnvelope) = 1 /\ inEnvelope[1].n = "SOAP-ENV:Body"
            /\ Len(inBody) = 1
            /\ inBody[1].n \in (IF P = {} THEN { "SOAP-ENV:Fault" }
                                ELSE { ResponseElement[k] : k \in P })

\* C4 witness: the GetCapabilities response, the one with the element names
\* TLS1.1 and X.509Token, has been read as a well-formed document.
C4_Witness ==
    \E w \in Sending :
        /\ workers[w].request = "<tds:" \o "GetCapabilities"
        /\ WellFormed(Document(workers[w].soap_response))
        /\ Len(ElementsAt(Document(workers[w].soap_response),
                          EnvelopeBody \o << "tds:GetCapabilitiesResponse", "tds:Capabilities",
                                             "tds:Device", "tds:Security", "tds:TLS1.1" >>)) = 1

\* C9: the GetProfiles response has one Profiles element per stored profile, in
\* the stored order, the i-th with the token and the name of the i-th profile;
\* with the defaults, Profile_1 (MainStream) then Profile_2 (SubStream).
C9_ProfilesInStoredOrder ==
    \A w \in Sending :
        LET doc == Document(workers[w].soap_response)
            P == Present(workers[w].request)
            at == EnvelopeBody \o << "trt:GetProfilesResponse", "trt:Profiles" >>
            els == ElementsAt(doc, at)
            anywhere == { i \in 1..Len(doc.nodes) : doc.nodes[i].k \in {"open", "empty"}
                                                    /\ doc.nodes[i].n = "trt:Profiles" }
        IN  (3 \in P /\ 1 \notin P /\ 2 \notin P) =>
              /\ Len(els) = Len(media_profiles)
              /\ Cardinality(anywhere) = Len(media_profiles)
              /\ \A i \in 1..Len(els) : Attribute(els[i], "token") = media_profiles[i].token
              /\ TextsAt(doc, at \o << "trt:Name" >>)
                   = [i \in 1..Len(media_profiles) |-> media_profiles[i].name]
              /\ [i \in 1..Len(els) |-> Attribute(els[i], "token")] = << "Profile_1", "Profile_2" >>
              /\ TextsAt(doc, at \o << "trt:Name" >>) = << "MainStream", "SubStream" >>

\* C9 witness: a GetProfiles request has been answered with two Profiles elements.
C9_Witness ==
    \E w \in Sending :
        /\ workers[w].request = "GetProfiles"
        /\ Len(ElementsAt(Document(workers[w].soap_response),
                          EnvelopeBody \o << "trt:GetProfilesResponse", "trt:Profiles" >>)) = 2


(* -------------------------------------------- claims about port arithmetic *)

\* The response of the worker, read as a document.
ReplyDocument(w) == Document(workers[w].soap_response)

\* The elements of a document that carry a name, wherever they are.
Named(doc, name) ==
    { i \in 1..Len(doc.nodes) : doc.nodes[i].k \in {"open", "empty"} /\ doc.nodes[i].n = name }

\* The decimal text of the port after the listening one, written out.
NextPortText ==
    CASE port = 8080 -> "8081"
      [] port = 554 -> "555"
      [] port = 65535 -> "65536"
      [] OTHER -> ToString(port + 1)

\* The decimal text of the listening port, written out.
PortText ==
    CASE port = 8080 -> "8080"
      [] port = 554 -> "554"
      [] port = 65535 -> "65535"
      [] OTHER -> ToString(port)

MediaUriPath == EnvelopeBody \o << "trt:GetStreamUriResponse", "trt:MediaUri" >>

\* C11: for every listening port, a request classified as GetStreamUri gets an
\* envelope with one MediaUri whose single trt:Uri is rtsp://localhost:<port+1>/stream1,
\* port + 1 being exact in int, with InvalidAfterConnect false, InvalidAfterReboot
\* false and Timeout PT60S; port 8080 gives rtsp://localhost:8081/stream1.
C11_StreamUriOnNextPort ==
    \A w \in Sending :
        Branch(workers[w].request) = 4 =>
            LET doc == ReplyDocument(w) IN
            /\ port + 1 <= INT_MAX
            /\ WellFormed(doc)
            /\ Len(ElementsAt(doc, MediaUriPath)) = 1
            /\ Cardinality(Named(doc, "trt:Uri")) = 1
            /\ TextsAt(doc, MediaUriPath \o << "trt:Uri" >>)
                 = << "rtsp://localhost:" \o NextPortText \o "/stream1" >>
            /\ port = 8080 =>
                 TextsAt(doc, MediaUriPath \o << "trt:Uri" >>) = << "rtsp://localhost:8081/stream1" >>
            /\ TextsAt(doc, MediaUriPath \o << "trt:InvalidAfterConnect" >>) = << "false" >>
            /\ TextsAt(doc, MediaUriPath \o << "trt:InvalidAfterReboot" >>) = << "false" >>
            /\ TextsAt(doc, MediaUriPath \o << "trt:Timeout" >>) = << "PT60S" >>

\* C11 witness: a GetStreamUri request on the highest TCP port has been answered
\* with the Uri on port 65536.
C11_Witness ==
    \E w \in Sending :
        /\ workers[w].request = "GetStreamUri"
        /\ port = 65535
        /\ TextsAt(ReplyDocument(w), MediaUriPath \o << "trt:Uri" >>)
             = << "rtsp://localhost:65536/stream1" >>

CapabilitiesPath == EnvelopeBody \o << "tds:GetCapabilitiesResponse", "tds:Capabilities" >>

\* The XAddr texts of a document in document order, each with the name of the
\* block of Capabilities it is in.
XAddrs(doc) ==
    LET idx == { i \in 1..Len(doc.nodes) :
                   /\ doc.nodes[i].k = "text"
                   /\ Len(doc.nodes[i].path) > 1
                   /\ doc.nodes[i].path[Len(doc.nodes[i].path)] = "tds:XAddr" }
        order == Increasing(idx, 1, Len(doc.nodes))
    IN  [i \in 1..Len(order) |->
            << doc.nodes[order[i]].path[Len(doc.nodes[order[i]].path) - 1], doc.nodes[order[i]].n >>]

\* C12: for every listening port, a request classified as GetCapabilities gets
\* an envelope with exactly three XAddr elements, one directly in each of the
\* Device, Media and PTZ blocks in that order, holding
\* http://localhost:<port>/onvif/device_service, .../media_service and
\* .../ptz_service with the listening port in all three.
C12_ThreeServiceAddresses ==
    \A w \in Sending :
        Branch(workers[w].request) = 2 =>
            LET doc == ReplyDocument(w)
                base == "http://localhost:" \o PortText \o "/onvif/"
            IN
            /\ WellFormed(doc)
            /\ Cardinality(Named(doc, "tds:XAddr")) = 3
            /\ XAddrs(doc) = << << "tds:Device", base \o "device_service" >>,
                                << "tds:Media", base \o "media_service" >>,
                                << "tds:PTZ", base \o "ptz_service" >> >>
            /\ Len(ChildrenAt(doc, CapabilitiesPath)) = 3
            /\ [i \in 1..3 |-> ChildrenAt(doc, CapabilitiesPath)[i].n]
                 = << "tds:Device", "tds:Media", "tds:PTZ" >>
            /\ TextsAt(doc, CapabilitiesPath \o << "tds:Device", "tds:XAddr" >>)
                 = << base \o "device_service" >>
            /\ TextsAt(doc, CapabilitiesPath \o << "tds:Media", "tds:XAddr" >>)
                 = << base \o "media_service" >>
            /\ TextsAt(doc, CapabilitiesPath \o << "tds:PTZ", "tds:XAddr" >>)
                 = << base \o "ptz_service" >>
            /\ port = 8080 =>
                 TextsAt(doc, CapabilitiesPath \o << "tds:PTZ", "tds:XAddr" >>)
                   = << "http://localhost:8080/onvif/ptz_service" >>

\* C12 witness: a GetCapabilities request on the RTSP port 554 has been answered
\* with the PTZ address on that port.
C12_Witness ==
    \E w \in Sending :
        /\ workers[w].request = "GetCapabilities"
        /\ port = 554
        /\ Len(ChildrenAt(ReplyDocument(w), CapabilitiesPath)) = 3
        /\ TextsAt(ReplyDocument(w), CapabilitiesPath \o << "tds:PTZ", "tds:XAddr" >>)
             = << "http://localhost:554/onvif/ptz_service" >>

(* ---------------------------------------------------- claims: the server  *)

\* Connections for whose request processRequest has returned.
Responded == { w \in Conns : workers[w].pc = "send" \/ workers[w].sends > 0 }

\* The response processRequest returned on a responded connection.
Reply(w) == workers[w].soap_response

\* The request line and headers of a request text: all up to and including the
\* first empty line, or the whole text if it has none.
HeadOf(text) ==
    LET z == find(text, CRLF \o CRLF)
    IN  IF z = npos THEN text ELSE SubSeq(text, 1, z + 4)

\* The body of a request text: what follows the first empty line.
BodyOf(text) ==
    LET z == find(text, CRLF \o CRLF)
    IN  IF z = npos THEN "" ELSE SubSeq(text, z + 5, Len(text))

\* C5 as claimed: every connection the worker has closed was sent exactly one
\* HTTP response carrying a SOAP envelope before it was closed.
C5_EveryConnectionAnswered ==
    \A w \in Conns :
        workers[w].pc = "done" =>
            /\ workers[w].sends = 1
            /\ Contains(workers[w].wire, "<SOAP-ENV:Envelope ")

\* C6 as claimed: two requests with the same body get the same response,
\* whatever their request lines and headers.
C6_RoutingByBodyOnly ==
    \A a, b \in Responded :
        BodyOf(workers[a].request) = BodyOf(workers[b].request) => Reply(a) = Reply(b)

\* C6 as amended: two requests with the same body whose request lines and
\* headers contain none of the six operation names get the same response; the
\* dispatcher reads request line, headers and body as one text, and the path
\* counts only as text in which a name may stand.
C6_RoutingByNamesInText ==
    \A a, b \in Responded :
        (/\ Reply(a) # Reply(b)
         /\ BodyOf(workers[a].request) = BodyOf(workers[b].request))
        => \/ Present(HeadOf(workers[a].request)) # {}
           \/ Present(HeadOf(workers[b].request)) # {}

\* C6 witness: the same body sent to two different paths, neither holding an
\* operation name, has got the same response.
C6_Witness ==
    \E a, b \in Responded :
        /\ HeadOf(workers[a].request) # HeadOf(workers[b].request)
        /\ Present(HeadOf(workers[a].request)) = {}
        /\ Present(HeadOf(workers[b].request)) = {}
        /\ BodyOf(workers[a].request) = "garbage"
        /\ BodyOf(workers[b].request) = "garbage"
        /\ Reply(a) = Reply(b)

\* C7: two connections with the same request text get byte-identical responses,
\* whenever each was handled and whatever the clock read then.
C7_Deterministic ==
    \A a, b \in Responded :
        workers[a].request = workers[b].request => Reply(a) = Reply(b)

\* C7 witness: two GetSystemDateAndTime requests, handled at different clock
\* readings, have the same response.
C7_Witness ==
    \E a, b \in Conns :
        /\ workers[a].pc = "send" /\ workers[b].pc = "send"
        /\ workers[a].request = workers[b].request
        /\ Contains(workers[a].request, "GetSystemDateAndTime")
        /\ workers[a].current_time # workers[b].current_time
        /\ Reply(a) = Reply(b)

\* C8 as claimed: no two workers are at once inside an unlocked access to the
\* same shared data (here gmtime's static struct tm), and every response is the
\* one processRequest gives for the request when run alone.
C8_NoConflictingAccess ==
    /\ Cardinality(InGmtime) <= 1
    /\ \A w \in Conns :
         workers[w].pc = "send" =>
             \E now \in Clock :
                 workers[w].soap_response = processRequest(workers[w].request, Server, put_time(now))

\* C10: in every state the profile collection is the two defaults in order, its
\* tokens pairwise distinct and its numbers positive, and the device identity is
\* what the constructor assigned.
C10_StoreNeverChanges ==
    /\ \A i, j \in 1..Len(media_profiles) :
         i # j => media_profiles[i].token # media_profiles[j].token
    /\ \A i \in 1..Len(media_profiles) :
         /\ media_profiles[i].width > 0 /\ media_profiles[i].height > 0
         /\ media_profiles[i].framerate > 0 /\ media_profiles[i].bitrate > 0
    /\ [i \in 1..Len(media_profiles) |->
          << media_profiles[i].token, media_profiles[i].name, media_profiles[i].width,
             media_profiles[i].height, media_profiles[i].framerate, media_profiles[i].bitrate >>]
         = << << "Profile_1", "MainStream", 1920, 1080, 30, 4000000 >>,
              << "Profile_2", "SubStream", 640, 480, 15, 1000000 >> >>
    /\ identity = DeviceIdentity

\* C10 witness: requests have been answered, stop() has run twice (from main and
\* from the destructor) and the process has exited.
C10_Witness ==
    /\ main_pc = "exited"
    /\ run_pc = "returned"
    /\ \E w \in Conns : workers[w].pc = "done" /\ workers[w].sends = 1

(* ------------------------------------------------- claims about shutdown *)

\* C13: once main has called stop() on the started server, run() has returned
\* or the thread running it has a step of its own to take, so that under a fair
\* scheduler and with no client connecting it returns and join completes; it
\* is never left waiting in accept().
C13_ShutdownTerminates ==
    main_pc = "join" => (run_pc = "returned" \/ ENABLED RunThread)

\* The same as a property of the fair server: stop() leads to run() returned.
C13_StopLeadsToReturn == (main_pc = "join") ~> (run_pc = "returned")

\* C14: close has been called on the number in server_socket at most once, and
\* never when the listening socket start() opened was not open.
C14_ListenSocketClosedOnce == listen_closes <= 1 /\ stale_closes = 0

\* C15: when main has returned after stop() and join and the server object is
\* destroyed, every handleClient thread run() spawned has finished.
C15_NoWorkerOutlivesServer ==
    (main_pc = "exited" /\ run_pc = "returned") =>
        \A w \in Conns : workers[w].pc \in {"none", "done"}

====
